---- MODULE Spec2Model ----
(***************************************************************************)
(* sigsynth: the criteria evaluator (sigsynth/validator.py), the variant   *)
(* expansion engine (sigsynth/expander.py) and the batch worker pool that  *)
(* drives them (sigsynth/batch_processor.py).                              *)
(*                                                                         *)
(* Python strings are sequences of one-character strings, so that lower(), *)
(* upper(), concatenation, endswith() and substring tests are computed.    *)
(* Every Python value (criteria node, condition, record value, record) is  *)
(* a node [t, s, n, items]:                                                *)
(*   t = "str"  : s is the text                                            *)
(*   t = "int"  : n is the number          t = "bool" : n is 0 or 1        *)
(*   t = "pat"  : a compiled re.Pattern, s its source                      *)
(*   t = "none" : None                                                     *)
(*   t = "list" : items is the sequence of element nodes                   *)
(*   t = "dict" : items is the insertion-ordered sequence of [k, v]        *)
(***************************************************************************)
EXTENDS Integers, Sequences, FiniteSets, TLC

\* ------------------------------------------------------------------------
\* Python str
\* ------------------------------------------------------------------------

Lowers == <<"a","b","c","d","e","f","g","h","i","j","k","l","m",
            "n","o","p","q","r","s","t","u","v","w","x","y","z">>

Uppers == <<"A","B","C","D","E","F","G","H","I","J","K","L","M",
            "N","O","P","Q","R","S","T","U","V","W","X","Y","Z">>

Digits == <<"0","1","2","3","4","5","6","7","8","9">>

\* code-point order of the characters the model uses
CharOrder == <<"$","(",".">> \o Digits \o Uppers \o <<"_">> \o Lowers \o <<"|">>

IndexIn(c, seq) == IF \E i \in 1..Len(seq) : seq[i] = c
                   THEN CHOOSE i \in 1..Len(seq) : seq[i] = c
                   ELSE 0

Ord(c) == IndexIn(c, CharOrder)

LowerChar(c) == IF IndexIn(c, Uppers) > 0 THEN Lowers[IndexIn(c, Uppers)] ELSE c

UpperChar(c) == IF IndexIn(c, Lowers) > 0 THEN Uppers[IndexIn(c, Lowers)] ELSE c

\* str.lower()
Lower(s) == [i \in 1..Len(s) |-> LowerChar(s[i])]

\* str.upper()
Upper(s) == [i \in 1..Len(s) |-> UpperChar(s[i])]

\* str.startswith
StartsWith(s, p) == Len(p) <= Len(s) /\ SubSeq(s, 1, Len(p)) = p

\* str.endswith
EndsWith(s, p) == Len(p) <= Len(s) /\ SubSeq(s, Len(s) - Len(p) + 1, Len(s)) = p

\* p in s
Contains(s, p) == \E i \in 0..(Len(s) - Len(p)) : SubSeq(s, i + 1, i + Len(p)) = p

\* s < t on str (lexicographic by code point)
StrLess(s, u) ==
    \E i \in 1..(Len(u)) :
        /\ i <= Len(s) + 1
        /\ SubSeq(s, 1, i - 1) = SubSeq(u, 1, i - 1)
        /\ (i = Len(s) + 1 \/ (i <= Len(s) /\ Ord(s[i]) < Ord(u[i])))

\* ------------------------------------------------------------------------
\* Python values
\* ------------------------------------------------------------------------

PyStr(s)   == [t |-> "str",  s |-> s,    n |-> 0, items |-> << >>]
PyInt(n)   == [t |-> "int",  s |-> << >>, n |-> n, items |-> << >>]
PyBool(b)  == [t |-> "bool", s |-> << >>, n |-> IF b THEN 1 ELSE 0, items |-> << >>]
PyPat(s)   == [t |-> "pat",  s |-> s,    n |-> 0, items |-> << >>]
PyNone     == [t |-> "none", s |-> << >>, n |-> 0, items |-> << >>]
PyList(xs) == [t |-> "list", s |-> << >>, n |-> 0, items |-> xs]
PyDict(es) == [t |-> "dict", s |-> << >>, n |-> 0, items |-> es]
KV(k, v) == [k |-> k, v |-> v]

IsNum(x) == x.t \in {"int", "bool"}

\* bool(x): the truth value of a Python object
Truthy(x) ==
    CASE x.t = "str"  -> Len(x.s) > 0
      [] x.t = "int"  -> x.n # 0
      [] x.t = "bool" -> x.n # 0
      [] x.t = "none" -> FALSE
      [] x.t = "pat"  -> TRUE
      [] OTHER        -> Len(x.items) > 0

\* key in d, d[key]
HasKey(d, key) == \E i \in 1..Len(d.items) : d.items[i].k = key
Get(d, key)    == d.items[CHOOSE i \in 1..Len(d.items) : d.items[i].k = key].v

\* d[key] = v on an existing or a new key (insertion order kept)
Put(d, key, v) ==
    IF HasKey(d, key)
    THEN PyDict([i \in 1..Len(d.items) |->
                 IF d.items[i].k = key THEN KV(key, v) ELSE d.items[i]])
    ELSE PyDict(Append(d.items, KV(key, v)))

Keys(d) == [i \in 1..Len(d.items) |-> d.items[i].k]

\* a == b for Python values
RECURSIVE PyEq(_, _)
PyEq(a, b) ==
    IF IsNum(a) /\ IsNum(b) THEN a.n = b.n
    ELSE IF a.t # b.t THEN FALSE
    ELSE CASE a.t = "str"  -> a.s = b.s
           [] a.t = "pat"  -> a.s = b.s
           [] a.t = "none" -> TRUE
           [] a.t = "list" -> /\ Len(a.items) = Len(b.items)
                              /\ \A i \in 1..Len(a.items) : PyEq(a.items[i], b.items[i])
           [] OTHER        -> /\ Len(a.items) = Len(b.items)
                              /\ \A i \in 1..Len(a.items) :
                                    /\ HasKey(b, a.items[i].k)
                                    /\ PyEq(a.items[i].v, Get(b, a.items[i].k))

\* ------------------------------------------------------------------------
\* Python re, for the patterns the model uses: a literal text, optionally
\* ending in "$" (end anchor); a pattern holding "(" has an unbalanced
\* parenthesis and re.compile raises re.error on it.
\* ------------------------------------------------------------------------

PatValid(p) == \A i \in 1..Len(p) : p[i] # "("

ReSearch(p, s) ==
    IF Len(p) > 0 /\ p[Len(p)] = "$"
    THEN EndsWith(s, SubSeq(p, 1, Len(p) - 1))
    ELSE Contains(s, p)

\* ------------------------------------------------------------------------
\* keys and literals of the source
\* ------------------------------------------------------------------------

kAnd        == <<"a","n","d">>
kOr         == <<"o","r">>
kNot        == <<"n","o","t">>
sufRe       == <<"|","r","e">>
opContains  == <<"|","c","o","n","t","a","i","n","s">>
opStarts    == <<"|","s","t","a","r","t","s","w","i","t","h">>
opEnds      == <<"|","e","n","d","s","w","i","t","h">>
opGt        == <<"|","g","t">>
opGte       == <<"|","g","t","e">>
opLt        == <<"|","l","t">>
opLte       == <<"|","l","t","e">>

\* the operators the operator loop knows (validator.py:106-138)
KnownOperators == {sufRe, opContains, opStarts, opEnds, opGt, opGte, opLt, opLte}

\* ------------------------------------------------------------------------
\* RuleValidator (sigsynth/validator.py)
\* ------------------------------------------------------------------------

\* compile_patterns_in_dict: walks dict values only (never into a list); a
\* str under a key ending in '|re' becomes a compiled pattern unless
\* re.compile raises re.error, and then it stays the str it was.
RECURSIVE compile_patterns_in_dict(_)
compile_patterns_in_dict(d) ==
    PyDict([i \in 1..Len(d.items) |->
        LET key   == d.items[i].k
            value == d.items[i].v
        IN  IF value.t = "dict"
            THEN KV(key, compile_patterns_in_dict(value))
            ELSE IF value.t = "str" /\ EndsWith(key, sufRe) /\ PatValid(value.s)
            THEN KV(key, PyPat(value.s))
            ELSE KV(key, value)])

\* RuleValidator.__init__: self.criteria after construction
RuleValidator(detection_criteria) == compile_patterns_in_dict(detection_criteria)

\* a < b, a <= b, a > b, a >= b: "T", "F", or "E" when Python raises TypeError
RECURSIVE PyCmp(_, _, _)
PyCmp(op, a, b) ==
    LET Rel(lt, eq) == CASE op = "lt" -> lt
                         [] op = "le" -> lt \/ eq
                         [] op = "gt" -> ~lt /\ ~eq
                         [] OTHER     -> ~lt
        TF(x) == IF x THEN "T" ELSE "F"
    IN  IF IsNum(a) /\ IsNum(b) THEN TF(Rel(a.n < b.n, a.n = b.n))
        ELSE IF a.t = "str" /\ b.t = "str" THEN TF(Rel(StrLess(a.s, b.s), a.s = b.s))
        ELSE IF a.t = "list" /\ b.t = "list"
        THEN LET m == IF Len(a.items) < Len(b.items) THEN Len(a.items) ELSE Len(b.items)
                 D == {i \in 1..m : ~PyEq(a.items[i], b.items[i])}
             IN  IF D = {}
                 THEN TF(Rel(Len(a.items) < Len(b.items), Len(a.items) = Len(b.items)))
                 ELSE LET i == CHOOSE j \in D : \A k \in D : j <= k
                      IN  PyCmp(op, a.items[i], b.items[i])
        ELSE "E"

\* any(item.lower() == v.lower() for v in value), from position j
RECURSIVE AnyLowerIn(_, _, _)
AnyLowerIn(item, vs, j) ==
    IF j > Len(vs) THEN "F"
    ELSE IF item.t # "str" \/ vs[j].t # "str" THEN "E"
    ELSE IF Lower(item.s) = Lower(vs[j].s) THEN "T"
    ELSE AnyLowerIn(item, vs, j + 1)

\* all(any(...) for item in condition), from position i   (validator.py:99)
RECURSIVE AllItemsIn(_, _, _)
AllItemsIn(cond, vs, i) ==
    IF i > Len(cond) THEN "T"
    ELSE LET r == AnyLowerIn(cond[i], vs, 1)
         IN  IF r = "T" THEN AllItemsIn(cond, vs, i + 1) ELSE r

\* any(item.lower() == value.lower() for item in condition)   (validator.py:102)
RECURSIVE AnyItemIs(_, _, _)
AnyItemIs(cond, value, i) ==
    IF i > Len(cond) THEN "F"
    ELSE IF cond[i].t # "str" \/ value.t # "str" THEN "E"
    ELSE IF Lower(cond[i].s) = Lower(value.s) THEN "T"
    ELSE AnyItemIs(cond, value, i + 1)

\* iter(x) succeeds; the nodes a for-loop over x then visits
Iterable(x) == x.t \in {"list", "dict", "str"}
IterNodes(x) ==
    CASE x.t = "list" -> x.items
      [] x.t = "dict" -> [i \in 1..Len(x.items) |-> PyStr(x.items[i].k)]
      [] OTHER        -> [i \in 1..Len(x.s) |-> PyStr(<<x.s[i]>>)]

RECURSIVE _evaluate_criteria(_, _)
RECURSIVE EvalAll(_, _, _)
RECURSIVE EvalAny(_, _, _)
RECURSIVE EvalFields(_, _, _)
RECURSIVE EvalOps(_, _, _, _)

\* all(self._evaluate_criteria(c, log_entry) for c in cs), from position i
EvalAll(cs, i, log_entry) ==
    IF i > Len(cs) THEN "T"
    ELSE LET r == _evaluate_criteria(cs[i], log_entry)
         IN  IF r = "T" THEN EvalAll(cs, i + 1, log_entry) ELSE r

\* any(self._evaluate_criteria(c, log_entry) for c in cs), from position i
EvalAny(cs, i, log_entry) ==
    IF i > Len(cs) THEN "F"
    ELSE LET r == _evaluate_criteria(cs[i], log_entry)
         IN  IF r = "F" THEN EvalAny(cs, i + 1, log_entry) ELSE r

\* the operator loop of one operator map   (validator.py:105-141)
EvalOps(condition, j, value, log_entry) ==
    IF j > Len(condition.items) THEN "T"
    ELSE LET op       == condition.items[j].k
             op_value == condition.items[j].v
             r == CASE op = sufRe ->
                        IF value.t # "str" THEN "F"
                        ELSE IF op_value.t = "pat"
                             THEN IF ReSearch(op_value.s, value.s) THEN "T" ELSE "F"
                        ELSE IF op_value.t = "str"
                             THEN IF ~PatValid(op_value.s) THEN "E"
                                  ELSE IF ReSearch(op_value.s, value.s) THEN "T" ELSE "F"
                        ELSE "E"
                    [] op = opContains ->
                        IF value.t # "str" THEN "F"
                        ELSE IF op_value.t # "str" THEN "E"
                        ELSE IF Contains(Lower(value.s), Lower(op_value.s)) THEN "T" ELSE "F"
                    [] op = opStarts ->
                        IF value.t # "str" THEN "F"
                        ELSE IF op_value.t # "str" THEN "E"
                        ELSE IF StartsWith(Lower(value.s), Lower(op_value.s)) THEN "T" ELSE "F"
                    [] op = opEnds ->
                        IF value.t # "str" THEN "F"
                        ELSE IF op_value.t # "str" THEN "E"
                        ELSE IF EndsWith(Lower(value.s), Lower(op_value.s)) THEN "T" ELSE "F"
                    [] op = opGt  -> PyCmp("gt", value, op_value)
                    [] op = opGte -> PyCmp("ge", value, op_value)
                    [] op = opLt  -> PyCmp("lt", value, op_value)
                    [] op = opLte -> PyCmp("le", value, op_value)
                    [] OTHER      -> _evaluate_criteria(condition, log_entry)
         IN  IF r = "T" THEN EvalOps(condition, j + 1, value, log_entry) ELSE r

\* one pass of the field loop body, for entry i   (validator.py:83-144)
FieldResult(criteria, i, log_entry) ==
    LET field     == criteria.items[i].k
        condition == criteria.items[i].v
    IN  IF ~HasKey(log_entry, field) THEN "F"
        ELSE LET value == Get(log_entry, field)
             IN  CASE condition.t = "pat" ->
                        IF value.t # "str" THEN "F"
                        ELSE IF ReSearch(condition.s, value.s) THEN "T" ELSE "F"
                   [] condition.t \in {"str", "int", "bool"} ->
                        IF PyEq(value, condition) THEN "T" ELSE "F"
                   [] condition.t = "list" ->
                        IF value.t = "list"
                        THEN AllItemsIn(condition.items, value.items, 1)
                        ELSE AnyItemIs(condition.items, value, 1)
                   [] condition.t = "dict" ->
                        EvalOps(condition, 1, value, log_entry)
                   [] OTHER -> "F"

\* the historical evaluator: decides on the first field it examines
EvalFieldsFirstOnly(criteria, i, log_entry) ==
    IF i > Len(criteria.items) THEN "T" ELSE FieldResult(criteria, i, log_entry)

\* the field loop of a field group, from entry i   (validator.py:82-145)
EvalFields(criteria, i, log_entry) ==
    IF i > Len(criteria.items) THEN "T"
    ELSE LET r == FieldResult(criteria, i, log_entry)
         IN  IF r = "T" THEN EvalFields(criteria, i + 1, log_entry) ELSE r

\* RuleValidator._evaluate_criteria: "T", "F", or "E" when an exception leaves it
_evaluate_criteria(criteria, log_entry) ==
    IF ~Truthy(criteria) THEN "T"
    ELSE IF criteria.t # "dict" THEN "E"
    ELSE IF HasKey(criteria, kAnd)
         THEN IF ~Iterable(Get(criteria, kAnd)) THEN "E"
              ELSE EvalAll(IterNodes(Get(criteria, kAnd)), 1, log_entry)
    ELSE IF HasKey(criteria, kOr)
         THEN IF ~Iterable(Get(criteria, kOr)) THEN "E"
              ELSE EvalAny(IterNodes(Get(criteria, kOr)), 1, log_entry)
    ELSE IF HasKey(criteria, kNot)
         THEN LET r == _evaluate_criteria(Get(criteria, kNot), log_entry)
              IN  IF r = "E" THEN "E" ELSE IF r = "T" THEN "F" ELSE "T"
    ELSE EvalFields(criteria, 1, log_entry)

\* validate_entry without its try/except: the exception leaves the call
validate_entry_uncaught(criteria, log_entry) ==
    LET r == _evaluate_criteria(criteria, log_entry)
    IN  IF r = "E" THEN "raised" ELSE IF r = "T" THEN "True" ELSE "False"

\* RuleValidator.validate_entry on a validator whose self.criteria is `criteria`:
\* "True" or "False" (an exception is caught and gives "False")
validate_entry(criteria, log_entry) ==
    IF _evaluate_criteria(criteria, log_entry) = "T" THEN "True" ELSE "False"

\* ------------------------------------------------------------------------
\* Inputs of the evaluator: criteria trees and records
\* ------------------------------------------------------------------------

fF    == <<"f">>
fG    == <<"g">>
fFre  == <<"f","|","r","e">>
sAb   == <<"a","b">>
sABup == <<"A","B">>
sCd   == <<"c","d">>
sXab  == <<"x","a","b">>
sZz   == <<"z","z">>
sBad  == <<"a","(">>
opNear == <<"|","n","e","a","r">>

Group1(k, c)         == PyDict(<<KV(k, c)>>)
Group2(k1, c1, k2, c2) == PyDict(<<KV(k1, c1), KV(k2, c2)>>)
And2(a, b) == PyDict(<<KV(kAnd, PyList(<<a, b>>))>>)
Or2(a, b)  == PyDict(<<KV(kOr, PyList(<<a, b>>))>>)
Not1(a)    == PyDict(<<KV(kNot, a)>>)

CriteriaPool ==
    << PyDict(<< >>),
       Group1(fF, PyStr(sAb)),
       Group1(fF, PyList(<<PyStr(sAb), PyStr(sCd)>>)),
       Group2(fF, PyStr(sAb), fG, PyInt(7)),
       Group2(fG, PyInt(7), fF, PyStr(sAb)),
       Group1(fFre, PyStr(sAb)),
       Group1(fFre, PyStr(sBad)),
       Group1(fG, Group1(opGt, PyInt(5))),
       Group2(fF, Group1(opContains, PyStr(<<"B">>)), fG, Group1(opLte, PyInt(7))),
       Group2(fG, Group1(opGt, PyInt(5)), fF, PyStr(sAb)),
       Group1(fF, PyNone),
       Group1(fG, Group1(fF, PyStr(sAb))),
       Group1(fF, PyList(<<PyInt(1), PyStr(sAb)>>)),
       Group1(fG, PyInt(1)),
       Group1(fF, Group2(opStarts, PyStr(<<"a">>), opEnds, PyStr(<<"B">>))),
       Group1(fF, Group1(sufRe, PyStr(<<"b","$">>))),
       Not1(Group1(fF, PyStr(sAb))),
       Or2(Group1(fF, PyStr(sAb)), Group1(fG, PyInt(7))),
       And2(Group1(fF, PyList(<<PyStr(sAb)>>)), Group1(fG, Group1(opLt, PyInt(9)))),
       Group1(kAnd, PyInt(5)),
       Group1(fG, Group1(opNear, Group1(fF, PyStr(sAb)))) >>

SecondPool ==
    << PyDict(<< >>),
       Group1(fG, PyInt(7)),
       Group1(fG, Group1(opGte, PyInt(5))),
       Group1(fFre, PyStr(sAb)),
       Group1(fF, PyStr(sAb)) >>

RecordPool ==
    << PyDict(<< >>),
       PyDict(<<KV(fF, PyStr(sAb)), KV(fG, PyInt(7))>>),
       PyDict(<<KV(fF, PyStr(sABup)), KV(fG, PyStr(sZz))>>),
       PyDict(<<KV(fFre, PyStr(sXab)), KV(fF, PyStr(sCd)), KV(fG, PyInt(9))>>),
       PyDict(<<KV(fF, PyList(<<PyStr(sABup), PyStr(sCd)>>)), KV(fG, PyBool(TRUE))>>),
       PyDict(<<KV(fF, PyInt(1)), KV(fG, PyInt(7))>>),
       PyDict(<<KV(fF, PyStr(sAb))>>),
       PyDict(<<KV(fFre, PyStr(sBad)), KV(fF, PyStr(sAb)), KV(fG, PyInt(7))>>) >>

\* how many times the driver calls validate_entry on each validator
MaxCalls == 2

\* ------------------------------------------------------------------------
\* The evaluator under a driver: validators are built on critA, critB,
\* And(critA, critB), Or(critA, critB), Not(critA) and on each single entry
\* of critA when it is a field group, then each is called on record.
\* ------------------------------------------------------------------------

VARIABLES critA, critB, record, validators, verdicts

evalVars == <<critA, critB, record, validators, verdicts>>

VARIABLES detection_criteria, positive_seeds, negative_seeds, target_samples,
          random_seed, runs, tape, rpos

expVars == <<detection_criteria, positive_seeds, negative_seeds, target_samples,
             random_seed, runs, tape, rpos>>

\* the commands that drive an expander: cli is the generate command, pool is
\* process_rules_async with its thread pool
VARIABLES cli, pool

cmdVars == <<cli, pool>>

vars == <<evalVars, expVars, cmdVars>>

IsFieldGroup(c) ==
    c.t = "dict" /\ ~HasKey(c, kAnd) /\ ~HasKey(c, kOr) /\ ~HasKey(c, kNot)

Singles(c) ==
    IF IsFieldGroup(c) THEN [i \in 1..Len(c.items) |-> PyDict(<<c.items[i]>>)] ELSE << >>

\* the criteria each validator is built on, each a fresh object
Subjects ==
    <<critA, critB, And2(critA, critB), Or2(critA, critB), Not1(critA)>> \o Singles(critA)

\* RuleValidator(criteria) for the next subject
NewValidator ==
    /\ Len(validators) < Len(Subjects)
    /\ validators' = Append(validators, RuleValidator(Subjects[Len(validators) + 1]))
    /\ verdicts' = Append(verdicts, << >>)
    /\ UNCHANGED <<critA, critB, record>>
    /\ UNCHANGED <<expVars, cmdVars>>

\* validator.validate_entry(record) on validator i
ValidateEntry(i) ==
    /\ Len(validators) = Len(Subjects)
    /\ Len(verdicts[i]) < MaxCalls
    /\ \A j \in 1..Len(verdicts) :
          Len(verdicts[j]) >= Len(verdicts[i]) + (IF j < i THEN 1 ELSE 0)
    /\ verdicts' = [verdicts EXCEPT ![i] = Append(@, validate_entry(validators[i], record))]
    /\ UNCHANGED <<critA, critB, record, validators>>
    /\ UNCHANGED <<expVars, cmdVars>>

\* every validator has been called at least once
Judged == Len(validators) = Len(Subjects) /\ \A i \in 1..Len(verdicts) : Len(verdicts[i]) >= 1

\* the first verdict of validator i is True
Holds(i) == verdicts[i][1] = "True"

\* the verdicts on A, B, And(A, B), Or(A, B), Not(A), and on entry i of A alone
HoldsA         == Holds(1)
HoldsB         == Holds(2)
HoldsAnd       == Holds(3)
HoldsOr        == Holds(4)
HoldsNot       == Holds(5)
HoldsSingle(i) == Holds(5 + i)

\* ------------------------------------------------------------------------
\* Claims about the evaluator (specification SpecEval)
\* ------------------------------------------------------------------------

C8_AndIsConjunction ==
    Judged => (HoldsAnd <=> (HoldsA /\ HoldsB))

\* C9: the Or of A and B evaluates to evaluate(A) or evaluate(B), also when
\* one child fails through a type mismatch and the other holds.
C9_OrIsDisjunction ==
    Judged => (HoldsOr <=> (HoldsA \/ HoldsB))

\* C10: Not(A) evaluates to the negation of evaluate(A); a type mismatch
\* inside A makes A false and Not(A) true.
C10_NotIsNegation ==
    Judged => (HoldsNot <=> ~HoldsA)

\* critA is a field group of one entry; its field and its condition
IsSingleGroup(c) == IsFieldGroup(c) /\ Len(c.items) = 1
FieldOfA == critA.items[1].k
CondOfA  == critA.items[1].v

\* a and b are equal, letter case apart: strings by their lower-case text,
\* other scalars by value
CaseInsensitiveEq(a, b) ==
    IF a.t = "str" /\ b.t = "str" THEN Lower(a.s) = Lower(b.s) ELSE PyEq(a, b)

\* the allowed-value list `values` accepts the record value
OneOfAccepts(values, value) ==
    IF value.t = "list"
    THEN \A i \in 1..Len(values) :
            \E j \in 1..Len(value.items) : CaseInsensitiveEq(values[i], value.items[j])
    ELSE \E i \in 1..Len(values) : CaseInsensitiveEq(values[i], value)

\* C11: an allowed-value list on a field the record has holds iff, for a
\* sequence value, every condition value case-insensitively equals some
\* element of it, and otherwise the record value case-insensitively equals
\* at least one condition value.
C11_OneOf ==
    (Judged /\ IsSingleGroup(critA) /\ CondOfA.t = "list" /\ HasKey(record, FieldOfA))
        => (HoldsA <=> OneOfAccepts(CondOfA.items, Get(record, FieldOfA)))

\* C12: a scalar condition on a field the record has holds iff the record
\* value has the same type and the same value as the scalar (no match across
\* boolean, number and string; strings compared case-sensitively).
C12_Equals ==
    (Judged /\ IsSingleGroup(critA) /\ CondOfA.t \in {"str", "int", "bool"}
            /\ HasKey(record, FieldOfA))
        => (HoldsA <=> (/\ Get(record, FieldOfA).t = CondOfA.t
                        /\ Get(record, FieldOfA).s = CondOfA.s
                        /\ Get(record, FieldOfA).n = CondOfA.n))

\* the field a key of the form <field>|re names
BaseField(key) == SubSeq(key, 1, Len(key) - Len(sufRe))

\* C13: a string pattern under a key <field>|re is a regex condition on the
\* record field <field>: the entry holds iff the record has <field> with a
\* string value in which the pattern matches somewhere.
C13_RegexKey ==
    (Judged /\ IsSingleGroup(critA) /\ EndsWith(FieldOfA, sufRe)
            /\ CondOfA.t = "str" /\ PatValid(CondOfA.s))
        => (HoldsA <=> (/\ HasKey(record, BaseField(FieldOfA))
                        /\ Get(record, BaseField(FieldOfA)).t = "str"
                        /\ ReSearch(CondOfA.s, Get(record, BaseField(FieldOfA)).s)))

\* C28: inside an operator map attached to a field, an operator key that is
\* not a recognized operator is handled by evaluating that key's operand as a
\* criteria node against the same record: the field condition fails iff the
\* evaluation of the operand is false.  Stated for a map of one such key whose
\* operand evaluates without an exception, on a record that has the field.
C28_UnknownOperator ==
    ( /\ Judged /\ IsSingleGroup(critA) /\ HasKey(record, FieldOfA)
      /\ CondOfA.t = "dict" /\ Len(CondOfA.items) = 1
      /\ CondOfA.items[1].k \notin KnownOperators
      /\ _evaluate_criteria(validators[1].items[1].v.items[1].v, record) # "E" )
        => (HoldsA <=>
               _evaluate_criteria(validators[1].items[1].v.items[1].v, record) = "T")

\* the field group has a key <field>|re whose str pattern does not compile
HasInvalidPattern(c) ==
    /\ IsFieldGroup(c)
    /\ \E i \in 1..Len(c.items) :
          /\ EndsWith(c.items[i].k, sufRe) /\ Len(c.items[i].k) > Len(sufRe)
          /\ c.items[i].v.t = "str" /\ ~PatValid(c.items[i].v.s)

\* C22: a <field>|re condition whose pattern fails to compile is treated as
\* always non-matching: the validator is built without raising, and
\* validate_entry is false for every record under a field group that contains
\* the condition.
C22_InvalidPatternNeverMatches ==
    (Judged /\ HasInvalidPattern(critA))
        => (validators[1].t = "dict" /\ ~HoldsA)

\* ------------------------------------------------------------------------
\* The random module (process-global generator).  A draw is a number of
\* hundredths in [0, 100); DrawVals are the representatives the model draws.
\* One call of random(), choice(), randint(), or choices() consumes one draw;
\* shuffle() consumes one per swap.  A run of a randomised routine is its
\* result together with the draws it consumed, in order (tr).
\* ------------------------------------------------------------------------

DrawVals == {5, 30, 60, 90}

\* random_seed is not None: the generator was put at the start of a stream
\* that another generator seeded alike replays; otherwise no draw is replayed
Seeded == random_seed # "None"

\* the draws a run records: those a generator seeded alike would repeat
Drawn(ds) == IF Seeded THEN ds ELSE << >>

\* random.random() < pct / 100
Below(u, pct) == u < pct

\* random.choice(seq): the position it picks, and the element there
ChoiceIndex(seq, u) == (u * Len(seq)) \div 100 + 1
Choice(seq, u) == seq[ChoiceIndex(seq, u)]

\* str(random.randint(0, 9))
RandDigit(u) == Digits[(u * 10) \div 100 + 1]

\* ''.join(random.choices(string.ascii_letters + string.digits, k=5))
NoiseAlphabet == Lowers \o Uppers \o Digits
Noise(u) == [i \in 1..5 |-> NoiseAlphabet[(u * Len(NoiseAlphabet)) \div 100 + 1]]

Swap(xs, i, j) == [xs EXCEPT ![i] = xs[j], ![j] = xs[i]]

\* random.shuffle(xs): for i in reversed(range(1, len(xs))): j = randbelow(i + 1)
RECURSIVE ShuffleRuns(_, _)
ShuffleRuns(xs, i) ==
    IF i < 1 THEN {[xs |-> xs, tr |-> << >>]}
    ELSE UNION { { [xs |-> r.xs, tr |-> Drawn(<<u>>) \o r.tr] :
                     r \in ShuffleRuns(Swap(xs, i + 1, (u * (i + 1)) \div 100 + 1), i - 1) } :
                 u \in DrawVals }

\* ------------------------------------------------------------------------
\* LocalExpander (sigsynth/expander.py): the mutations
\* ------------------------------------------------------------------------

sError      == <<"e","r","r","o","r">>
sFailed     == <<"f","a","i","l","e","d">>
sErrorPfx   == <<"E","R","R","O","R","_">>
sFailedPfx  == <<"F","A","I","L","E","D","_">>
sNotAllowed == <<"n","o","t","a","l","l","o","w","e","d">>
sUnderscore == <<"_">>

\* a membership test that finds no key critical
InNone(x, seq) == FALSE

\* x in seq
InSeq(x, seq) == \E i \in 1..Len(seq) : seq[i] = x

\* the three transformations of one non-critical str value (expander.py:175-184),
\* one after the other; each assignment is computed from `value`, the value
\* the loop read, and replaces what an earlier one assigned
TransformValueRuns(value) ==
    LET lower  == Lower(value)
        upper  == Upper(value)
        prefixed == IF Contains(lower, sError) THEN <<sErrorPfx \o value>>
                    ELSE IF Contains(lower, sFailed) THEN <<sFailedPfx \o value>>
                    ELSE << >>
        \* if random.random() < 0.2: value.lower() if random.random() < 0.5 else value.upper()
        Casing == { [v |-> value, tr |-> Drawn(<<u1>>)] : u1 \in {u \in DrawVals : ~Below(u, 20)} }
                  \cup { [v |-> IF Below(u2, 50) THEN lower ELSE upper, tr |-> Drawn(<<u1, u2>>)] :
                         u1 \in {u \in DrawVals : Below(u, 20)}, u2 \in DrawVals }
        \* if random.random() < 0.1: f"{value}_{noise}"
        Noised(c) == { [v |-> c.v, tr |-> c.tr \o Drawn(<<u3>>)] :
                         u3 \in {u \in DrawVals : ~Below(u, 10)} }
                     \cup { [v |-> value \o sUnderscore \o Noise(u4), tr |-> c.tr \o Drawn(<<u3, u4>>)] :
                            u3 \in {u \in DrawVals : Below(u, 10)}, u4 \in DrawVals }
        \* if random.random() < 0.15: f"ERROR_{value}" / f"FAILED_{value}"
        Relabelled(c) == { [v |-> IF Below(u5, 15) /\ Len(prefixed) > 0 THEN prefixed[1] ELSE c.v,
                            tr |-> c.tr \o Drawn(<<u5>>)] : u5 \in DrawVals }
    IN  UNION { UNION { Relabelled(n) : n \in Noised(c) } : c \in Casing }

\* _transform_non_critical_fields(log_entry), from entry i
RECURSIVE _transform_non_critical_fields(_, _, _)
_transform_non_critical_fields(log_entry, i, critical_fields) ==
    IF i > Len(log_entry.items) THEN {[rec |-> log_entry, tr |-> << >>]}
    ELSE LET key   == log_entry.items[i].k
             value == log_entry.items[i].v
         IN  IF InSeq(key, critical_fields) \/ value.t # "str"
             THEN _transform_non_critical_fields(log_entry, i + 1, critical_fields)
             ELSE UNION { { [rec |-> r2.rec, tr |-> r1.tr \o r2.tr] :
                              r2 \in _transform_non_critical_fields(
                                         Put(log_entry, key, PyStr(r1.v)), i + 1, critical_fields) } :
                          r1 \in TransformValueRuns(value.s) }

\* the while loop of _break_critical_field (expander.py:212-213)
RECURSIVE DigitRuns(_, _)
DigitRuns(new_value, allowed) ==
    IF ~\E i \in 1..Len(allowed) : Lower(allowed[i].s) = Lower(new_value)
    THEN {[s |-> new_value, tr |-> << >>]}
    ELSE UNION { { [s |-> r.s, tr |-> Drawn(<<u>>) \o r.tr] :
                     r \in DigitRuns(Append(new_value, RandDigit(u)), allowed) } :
                 u \in DrawVals }

\* a choice among all critical fields, in the record or not
EveryCriticalField(critical_fields, log_entry) == critical_fields

\* available_fields = [f for f in self.critical_fields if f in log_entry]
\* (expander.py:202)
AvailableFields(critical_fields, log_entry) ==
    SelectSeq(critical_fields, LAMBDA f : HasKey(log_entry, f))

\* _break_critical_field(log_entry); raised when the call ends in an exception
\* (allowed[0] of an empty list, allowed[0] + str or v.lower() on a non-str)
_break_critical_field(log_entry, criteria, critical_fields) ==
    LET available_fields == AvailableFields(critical_fields, log_entry)
        Same == {[rec |-> log_entry, tr |-> << >>, raised |-> FALSE]}
    IN  IF Len(critical_fields) = 0 THEN Same
        ELSE IF Len(available_fields) = 0 THEN Same
        ELSE UNION {
            LET field   == Choice(available_fields, u)
                allowed == Get(criteria, field)
            IN  IF allowed.t = "list"
                THEN IF \/ Len(allowed.items) = 0
                        \/ \E i \in 1..Len(allowed.items) : allowed.items[i].t # "str"
                     THEN {[rec |-> log_entry, tr |-> Drawn(<<u>>), raised |-> TRUE]}
                     ELSE { [rec |-> Put(log_entry, field, PyStr(r.s)),
                             tr |-> Drawn(<<u>>) \o r.tr, raised |-> FALSE] :
                            r \in DigitRuns(allowed.items[1].s \o sUnderscore \o sNotAllowed,
                                            allowed.items) }
                ELSE IF allowed.t = "str"
                THEN {[rec |-> Put(log_entry, field,
                                   PyStr(allowed.s \o sUnderscore \o sNotAllowed)),
                       tr |-> Drawn(<<u>>), raised |-> FALSE]}
                ELSE {[rec |-> Put(log_entry, field, PyStr(sNotAllowed)),
                       tr |-> Drawn(<<u>>), raised |-> FALSE]} :
            u \in DrawVals }

\* an attempt loop that accepts every mutated record
AcceptAnyVariant(criteria, variant, should_trigger) == TRUE

\* is_valid = self.validator.validate_entry(variant); is_valid == should_trigger
\* (expander.py:152-153)
IsValidVariant(criteria, variant, should_trigger) ==
    validate_entry(criteria, variant) = (IF should_trigger THEN "True" ELSE "False")

\* one pass of the attempt loop of _expand_seed (expander.py:139-153) on a
\* deep copy of `seed`: the mutated record, whether the validator's verdict
\* equals should_trigger (ok), and the draws consumed
AttemptRuns(seed, should_trigger, criteria, critical_fields) ==
    LET Judge(r, tr) ==
            [rec |-> r, tr |-> tr, raised |-> FALSE,
             ok |-> IsValidVariant(criteria, r, should_trigger)]
    IN  IF should_trigger
        THEN { Judge(r.rec, r.tr) :
                 r \in _transform_non_critical_fields(seed, 1, critical_fields) }
        ELSE UNION {
               IF b.raised
               THEN {[rec |-> b.rec, tr |-> b.tr, raised |-> TRUE, ok |-> FALSE]}
               ELSE { Judge(r.rec, b.tr \o r.tr) :
                        r \in _transform_non_critical_fields(b.rec, 1, critical_fields) } :
               b \in _break_critical_field(seed, criteria, critical_fields) }

\* retries of one variant slot   (expander.py:135)
attempts_per_variant == 5

\* ------------------------------------------------------------------------
\* LocalExpander runs.  Run e is one LocalExpander with its RuleValidator,
\* constructed and then driven through expand_seeds; runs[e].pc is its
\* position.  Runs 1 and 2 live in process 1 (one after the other, or as two
\* worker threads of the batch pool) and share its random generator; run 3
\* lives in process 2, alone.
\*
\* random.seed(random_seed) puts a generator at the start of the seed's
\* stream.  tape is the part of that stream drawn so far and rpos[p] is how
\* far the generator of process p has read it.  With random_seed None the
\* generator starts from OS entropy: every draw is free and none is replayed.
\* ------------------------------------------------------------------------

RunIds == {1, 2, 3}
Procs  == {1, 2}
Proc(e) == IF e = 3 THEN 2 ELSE 1

IdleRun ==
    [pc |-> "idle", criteria |-> PyNone, critical_fields |-> << >>,
     target_positive |-> 0, target_negative |-> 0,
     si |-> 0, slot |-> 0, attempt |-> 0,
     positive_variants |-> << >>, negative_variants |-> << >>, variants |-> << >>,
     left |-> 0, seed |-> PyNone, should_trigger |-> FALSE, result |-> << >>]

\* the generator of process p can yield the draws tr next
Yields(p, tr) ==
    Seeded => \A k \in 1..Len(tr) :
                 (rpos[p] + k <= Len(tape)) => (tape[rpos[p] + k] = tr[k])

\* the generator of process p yields the draws tr
Consume(p, tr) ==
    /\ Yields(p, tr)
    /\ tape' = IF Seeded /\ rpos[p] + Len(tr) > Len(tape)
               THEN tape \o SubSeq(tr, Len(tape) - rpos[p] + 1, Len(tr))
               ELSE tape
    /\ rpos' = IF Seeded THEN [rpos EXCEPT ![p] = @ + Len(tr)] ELSE rpos

\* a constructor that never calls random.seed
ReseedNever(rp, p) == rp

\* if random_seed is not None: random.seed(random_seed)   (expander.py:35-36)
Reseed(rp, p) == IF Seeded THEN [rp EXCEPT ![p] = 0] ELSE rp

\* self.detection_criteria = detection_criteria or {}   (expander.py:37)
CriteriaOrEmpty(criteria) == IF Truthy(criteria) THEN criteria ELSE PyDict(<< >>)

\* LocalExpander.__init__ (expander.py:28-39); RuleValidator compiles the
\* patterns of the criteria dict in place
Construct(e) ==
    /\ runs[e].pc = "idle"
    /\ runs' = [runs EXCEPT ![e] =
                  [@ EXCEPT !.pc = "ready",
                            !.critical_fields = Keys(CriteriaOrEmpty(detection_criteria)),
                            !.criteria = RuleValidator(CriteriaOrEmpty(detection_criteria))]]
    /\ rpos' = Reseed(rpos, Proc(e))
    /\ UNCHANGED <<detection_criteria, positive_seeds, negative_seeds, target_samples,
                   random_seed, tape, evalVars, cmdVars>>

\* ------------------------------------------------------------------------
\* Python floats (IEEE 754 binary64, round to nearest, ties to even) for the
\* values of the ratio split: a float is zero or [m, e] with m a sequence of
\* Precision bits, the first of them 1, and value 0.m * 2^e.
\* ------------------------------------------------------------------------

\* significand bits of a binary64
Precision == 53

FloatZero == [m |-> << >>, e |-> 0]

\* the element of a one-element set; { F(v) : v \in {e} } computes e once,
\* however often F reads v
Only(S) == CHOOSE x \in S : TRUE

\* bits are handled Chunk at a time, as n-bit digits
Chunk == 9

\* the w binary digits of n < 2^w
BitsOfWidth(n, w) == [j \in 1..w |-> (n \div 2^(w - j)) % 2]

\* the sequence without its leading zeros
Stripped(bits) ==
    IF \A i \in 1..Len(bits) : bits[i] = 0 THEN << >>
    ELSE LET first == CHOOSE i \in 1..Len(bits) :
                          bits[i] = 1 /\ \A j \in 1..(i - 1) : bits[j] = 0
         IN  SubSeq(bits, first, Len(bits))

\* the bits plus one unit in the last place; carry is 1 when they wrap to zero
Incremented(bits) ==
    IF \A i \in 1..Len(bits) : bits[i] = 1
    THEN [bits |-> [i \in 1..Len(bits) |-> 0], carry |-> 1]
    ELSE LET last == CHOOSE i \in 1..Len(bits) :
                         bits[i] = 0 /\ \A j \in (i + 1)..Len(bits) : bits[j] = 1
         IN  [bits |-> [i \in 1..Len(bits) |->
                          IF i < last THEN bits[i] ELSE IF i = last THEN 1 ELSE 0],
              carry |-> 0]

\* the nearest float to 0.bits * 2^e plus a non-zero rest below the last bit
\* when sticky; bits starts with 1 and has Precision bits or more
RoundToFloat(bits, sticky, e) ==
    LET keep  == SubSeq(bits, 1, Precision)
        guard == IF Len(bits) > Precision THEN bits[Precision + 1] ELSE 0
        rest  == sticky \/ \E i \in (Precision + 2)..Len(bits) : bits[i] = 1
        up    == guard = 1 /\ (rest \/ keep[Precision] = 1)
        inc   == Incremented(keep)
    IN  IF ~up THEN [m |-> keep, e |-> e]
        ELSE IF inc.carry = 1 THEN [m |-> [inc.bits EXCEPT ![1] = 1], e |-> e + 1]
        ELSE [m |-> inc.bits, e |-> e]

\* the remainder of r * 2^(Chunk * i) by q
RECURSIVE Remainder(_, _, _)
Remainder(r, q, i) == IF i = 0 THEN r ELSE (Remainder(r, q, i - 1) * 2^Chunk) % q

\* the first Chunk * c bits of the binary expansion of r / q, for 0 <= r < q,
\* and what is left of r
QuotientBits(r, q, c) ==
    [bits |-> [j \in 1..(Chunk * c) |->
                 LET i == (j - 1) \div Chunk
                 IN  BitsOfWidth((Remainder(r, q, i) * 2^Chunk) \div q, Chunk)[j - Chunk * i]],
     r |-> Remainder(r, q, c)]

\* r / q = (r' / q) * 2^(-z) with 1/2 <= r' / q < 1, for 0 < r < q
RECURSIVE Scaled(_, _, _)
Scaled(r, q, z) == IF 2 * r >= q THEN [r |-> r, z |-> z] ELSE Scaled(2 * r, q, z + 1)

\* p / q on ints 0 <= p <= q, q > 0: the float nearest to the quotient
TrueDiv(p, q) ==
    IF p = 0 THEN FloatZero
    ELSE IF p = q THEN [m |-> [i \in 1..Precision |-> IF i = 1 THEN 1 ELSE 0], e |-> 1]
    ELSE LET s == Scaled(p, q, 0)
         IN  Only({ RoundToFloat(d.bits, d.r # 0, 0 - z) :
                        d \in {QuotientBits(s.r, q, (Precision + Chunk) \div Chunk)},
                        z \in {s.z} })

\* the int the first k bits spell
RECURSIVE IntOfBits(_, _)
IntOfBits(bits, k) == IF k = 0 THEN 0 ELSE 2 * IntOfBits(bits, k - 1) + bits[k]

\* digit i of the bits, counted from the low end, Chunk bits each
DigitOf(bits, i) ==
    LET hi == Len(bits) - Chunk * i
    IN  IntOfBits([j \in 1..Chunk |-> IF hi + j >= 1 THEN bits[hi + j] ELSE 0], Chunk)

\* digit i of n * bits plus the carry out of the digits below, not yet reduced
RECURSIVE TimesDigit(_, _, _)
TimesDigit(bits, n, i) ==
    DigitOf(bits, i) * n + (IF i = 1 THEN 0 ELSE TimesDigit(bits, n, i - 1) \div 2^Chunk)

\* the binary digits of n * bits, the first of them 1, for n < 2^21
TimesBits(bits, n) ==
    LET c == (Len(bits) + Chunk - 1) \div Chunk
        low == [j \in 1..(Chunk * c) |->
                   LET i == c - (j - 1) \div Chunk
                   IN  BitsOfWidth(TimesDigit(bits, n, i) % 2^Chunk, Chunk)
                                  [j - Chunk * (c - i)]]
    IN  Only({ Stripped(b) :
                   b \in {BitsOfWidth(TimesDigit(bits, n, c) \div 2^Chunk, 21) \o low} })

\* n * x for an int n >= 0 and a float x: the float nearest to the product
FloatTimes(n, x) ==
    IF n = 0 \/ x = FloatZero THEN FloatZero
    ELSE Only({ RoundToFloat(prod, FALSE, x.e + Len(prod) - Precision) :
                    prod \in {TimesBits(x.m, n)} })

\* int(x) for a float x >= 0 below 2^31: the fraction is dropped
IntOfFloat(x) ==
    IF x = FloatZero \/ x.e <= 0 THEN 0 ELSE IntOfBits(x.m, x.e)

\* a share rounded up, not truncated
IntOfRatioCeil(target, p, total) == (target * p + total - 1) \div total

\* int(target_samples * (len(positive_seeds) / total_seeds))   (expander.py:71-72)
IntOfRatio(target, p, total) ==
    Only({ IntOfFloat(y) : y \in { FloatTimes(target, x) : x \in {TrueDiv(p, total)} } })

\* a per-seed count that gives every positive seed the whole positive target
PosQuotaUndivided(r) == r.target_positive

\* target_positive // len(positive_seeds)   (expander.py:78)
PosQuota(r) == r.target_positive \div Len(positive_seeds)

\* a per-seed count that gives every negative seed the whole negative target
NegQuotaUndivided(r) == r.target_negative

\* target_negative // len(negative_seeds)   (expander.py:84)
NegQuota(r) == r.target_negative \div Len(negative_seeds)

\* variants[:target_samples]
Truncated(xs, n) == SubSeq(xs, 1, IF n < Len(xs) THEN n ELSE Len(xs))

\* return variants[:target_samples]   (expander.py:109)
Finish(r) == [r EXCEPT !.pc = "done", !.result = Truncated(r.variants, target_samples)]

AtSlot(r, phase, si, slot) ==
    [r EXCEPT !.pc = phase, !.si = si, !.slot = slot, !.attempt = 0]

\* the negative loop starts (expander.py:83-84), or the loops are over
FirstNegative(r) ==
    IF Len(negative_seeds) > 0 /\ NegQuota(r) > 0
    THEN AtSlot(r, "negative", 1, 1)
    ELSE [r EXCEPT !.pc = "shuffle"]

\* the positive loop starts (expander.py:77-78)
FirstPositive(r) ==
    IF Len(positive_seeds) > 0 /\ PosQuota(r) > 0
    THEN AtSlot(r, "positive", 1, 1)
    ELSE FirstNegative(r)

\* the slot after the current one in the per-seed loops
NextSlot(r) ==
    IF r.pc = "positive"
    THEN IF r.slot < PosQuota(r) THEN AtSlot(r, "positive", r.si, r.slot + 1)
         ELSE IF r.si < Len(positive_seeds) THEN AtSlot(r, "positive", r.si + 1, 1)
         ELSE FirstNegative(r)
    ELSE IF r.slot < NegQuota(r) THEN AtSlot(r, "negative", r.si, r.slot + 1)
         ELSE IF r.si < Len(negative_seeds) THEN AtSlot(r, "negative", r.si + 1, 1)
         ELSE [r EXCEPT !.pc = "shuffle"]

\* the targets per label, then the first loop (expander.py:71-78)
WithTargets(r) ==
    LET total_seeds == Len(positive_seeds) + Len(negative_seeds)
        target_positive == IntOfRatio(target_samples, Len(positive_seeds), total_seeds)
    IN  FirstPositive([r EXCEPT !.target_positive = target_positive,
                                !.target_negative = target_samples - target_positive])

\* an expand_seeds without the empty-pool return: len(positive_seeds) /
\* total_seeds raises ZeroDivisionError
StartedUnguarded(r) ==
    IF Len(positive_seeds) + Len(negative_seeds) = 0
    THEN [r EXCEPT !.pc = "raised"]
    ELSE WithTargets(r)

\* if total_seeds == 0: return []   (expander.py:66-68), else the targets
Started(r) ==
    IF Len(positive_seeds) + Len(negative_seeds) = 0
    THEN [r EXCEPT !.pc = "done", !.result = << >>]
    ELSE WithTargets(r)

\* expand_seeds up to the first mutation attempt (expander.py:65-78)
Begin(e) ==
    LET r == runs[e]
    IN  /\ r.pc = "ready"
        /\ runs' = [runs EXCEPT ![e] = Started(r)]
        /\ UNCHANGED <<detection_criteria, positive_seeds, negative_seeds, target_samples,
                       random_seed, tape, rpos, evalVars, cmdVars>>

\* a top-up that goes on until the list is full: while len(variants) < target
AfterTopUpUntilFull(r) ==
    IF Len(r.variants) >= target_samples THEN Finish(r)
    ELSE [r EXCEPT !.pc = "topup", !.attempt = 0]

\* the end of one iteration of the top-up loop (expander.py:104-107)
AfterTopUp(r) ==
    IF Len(r.variants) >= target_samples THEN Finish(r)
    ELSE IF r.left = 1 THEN Finish(r)
    ELSE [r EXCEPT !.pc = "topup", !.left = r.left - 1, !.attempt = 0]

\* a slot that gets one attempt more
AfterFailureOneMore(r) ==
    IF r.attempt < attempts_per_variant
    THEN [r EXCEPT !.attempt = @ + 1]
    ELSE IF r.pc = "topup_try" THEN AfterTopUp(r) ELSE NextSlot(r)

\* an attempt whose verdict is not should_trigger: the next attempt of the
\* slot, or after the last one the slot is skipped (expander.py:139, 155-157)
AfterFailure(r) ==
    IF r.attempt + 1 < attempts_per_variant
    THEN [r EXCEPT !.attempt = @ + 1]
    ELSE IF r.pc = "topup_try" THEN AfterTopUp(r) ELSE NextSlot(r)

\* an attempt loop that mutates the seed object itself: variant = seed
SameObject(seed) == [rec |-> seed, fresh |-> FALSE]

\* variant = deepcopy(seed) (expander.py:140): a record equal to the seed that
\* shares no object with it (fresh); a write to a record that is not fresh is
\* a write to the seed
deepcopy(seed) == [rec |-> seed, fresh |-> TRUE]

\* the seed list after an attempt left `rec` in the object `copy` of its
\* element i (i = 0: the seed is not of this list)
SeedsAfter(seeds, i, copy, rec) ==
    IF copy.fresh \/ i < 1 \/ i > Len(seeds) THEN seeds ELSE [seeds EXCEPT ![i] = rec]

\* one mutation attempt of _expand_seed (expander.py:138-156), in the per-seed
\* loops or inside a top-up call _expand_seed(seed, 1, should_trigger); in the
\* top-up r.si is the position of the picked seed in all_seeds
Attempt(e) ==
    LET r == runs[e]
        pi == CASE r.pc = "positive" -> r.si
                [] r.pc = "negative" -> 0
                [] OTHER             -> IF r.si <= Len(positive_seeds) THEN r.si ELSE 0
        ni == CASE r.pc = "positive" -> 0
                [] r.pc = "negative" -> r.si
                [] OTHER             -> IF r.si > Len(positive_seeds)
                                        THEN r.si - Len(positive_seeds) ELSE 0
        seed == IF pi > 0 THEN positive_seeds[pi] ELSE negative_seeds[ni]
        variant == deepcopy(seed)
        should_trigger == CASE r.pc = "positive" -> TRUE
                            [] r.pc = "negative" -> FALSE
                            [] OTHER             -> r.should_trigger
    IN  /\ r.pc \in {"positive", "negative", "topup_try"}
        /\ \E a \in AttemptRuns(variant.rec, should_trigger, r.criteria, r.critical_fields) :
              /\ Consume(Proc(e), a.tr)
              /\ positive_seeds' = SeedsAfter(positive_seeds, pi, variant, a.rec)
              /\ negative_seeds' = SeedsAfter(negative_seeds, ni, variant, a.rec)
              /\ runs' = [runs EXCEPT ![e] =
                   IF a.raised THEN [r EXCEPT !.pc = "raised"]
                   ELSE IF a.ok
                   THEN LET v == [rec |-> a.rec, label |-> should_trigger,
                                  fresh |-> variant.fresh, seed |-> seed]
                        IN  CASE r.pc = "positive" ->
                                   NextSlot([r EXCEPT !.positive_variants = Append(@, v)])
                              [] r.pc = "negative" ->
                                   NextSlot([r EXCEPT !.negative_variants = Append(@, v)])
                              [] OTHER ->
                                   AfterTopUp([r EXCEPT !.variants = Append(@, v)])
                   ELSE AfterFailure(r)]
        /\ UNCHANGED <<detection_criteria, target_samples, random_seed, evalVars, cmdVars>>

\* combine, shuffle and size (expander.py:88-97)
Shuffle(e) ==
    LET r == runs[e]
        all == r.positive_variants \o r.negative_variants
    IN  /\ r.pc = "shuffle"
        /\ \E s \in ShuffleRuns(all, Len(all) - 1) :
              /\ Consume(Proc(e), s.tr)
              /\ runs' = [runs EXCEPT ![e] =
                   LET shuffled == [r EXCEPT !.variants = s.xs]
                   IN  IF Len(s.xs) > target_samples
                       THEN Finish([r EXCEPT !.variants = Truncated(s.xs, target_samples)])
                       ELSE IF Len(s.xs) < target_samples
                       THEN [shuffled EXCEPT !.pc = "topup",
                                             !.left = target_samples - Len(s.xs)]
                       ELSE Finish(shuffled)]
        /\ UNCHANGED <<detection_criteria, positive_seeds, negative_seeds, target_samples,
                       random_seed, evalVars, cmdVars>>

\* seed = random.choice(all_seeds); should_trigger = seed in positive_seeds
\* (expander.py:99-102)
TopUpPick(e) ==
    LET r == runs[e]
        all_seeds == positive_seeds \o negative_seeds
    IN  /\ r.pc = "topup"
        /\ \E u \in DrawVals :
              /\ Consume(Proc(e), Drawn(<<u>>))
              /\ runs' = [runs EXCEPT ![e] =
                   LET seed == Choice(all_seeds, u)
                   IN  [r EXCEPT !.pc = "topup_try", !.attempt = 0, !.seed = seed,
                                 !.si = ChoiceIndex(all_seeds, u),
                                 !.should_trigger =
                                     \E i \in 1..Len(positive_seeds) :
                                         PyEq(seed, positive_seeds[i])]]
        /\ UNCHANGED <<detection_criteria, positive_seeds, negative_seeds, target_samples,
                       random_seed, evalVars, cmdVars>>

Step(e) == Construct(e) \/ Begin(e) \/ Attempt(e) \/ Shuffle(e) \/ TopUpPick(e)

Finished(e) == runs[e].pc \in {"done", "raised"}

\* ------------------------------------------------------------------------
\* The generate command (cli.py:106-197) around run 1: it builds the expander
\* and a second RuleValidator on the same criteria dict, expands the seeds,
\* validates every variant again and exits.  Parsing, seed generation and the
\* platform's writer are taken to succeed.
\* ------------------------------------------------------------------------

IdleCli == [pc |-> "running", validation_errors |-> << >>, report |-> "", exit_code |-> 0]

\* the positions i where validator.validate_entry(variant) differs from
\* expected_trigger (cli.py:161-178)
ValidationErrors(criteria, variants) ==
    SelectSeq([i \in 1..Len(variants) |-> i],
              LAMBDA i : (validate_entry(criteria, variants[i].rec) = "True")
                             # variants[i].label)

\* generate from the return of expand_seeds to sys.exit (cli.py:140-197)
Generate(e) ==
    /\ cli.pc = "running"
    /\ Finished(e)
    /\ cli' =
          IF runs[e].pc = "raised"
          THEN [cli EXCEPT !.pc = "exited", !.report = "Error", !.exit_code = 1]
          ELSE LET validation_errors ==
                       ValidationErrors(RuleValidator(runs[e].criteria), runs[e].result)
               IN  IF Len(validation_errors) > 0
                   THEN [cli EXCEPT !.pc = "exited", !.validation_errors = validation_errors,
                                    !.report = "Validation errors", !.exit_code = 1]
                   ELSE [cli EXCEPT !.pc = "exited",
                                    !.report = "All test cases validated successfully!"]
    /\ UNCHANGED <<evalVars, expVars, pool>>

\* ------------------------------------------------------------------------
\* Inputs of the expander
\* ------------------------------------------------------------------------

fM     == <<"m">>
sErrUp == <<"E","r","r","o","r">>

\* flat criteria: an allowed-value list and a scalar string
FlatCriteria == Group2(fF, PyList(<<PyStr(sAb), PyStr(sCd)>>), fG, PyStr(sZz))

\* criteria under a boolean node: its only top-level key is 'and'
NestedCriteria == And2(Group1(fM, PyStr(sErrUp)), PyDict(<< >>))

\* an allowed-value list that is empty
EmptyListCriteria == Group1(fF, PyList(<< >>))

\* conditions that are neither a list nor a str: a number, an operator map
NumberCriteria   == Group1(fM, PyInt(7))
OperatorCriteria == Group1(fM, Group1(opEnds, PyStr(<<"a","l","l","o","w","e","d">>)))

SeedMatch == PyDict(<<KV(fF, PyStr(sAb)), KV(fG, PyStr(sZz))>>)
SeedNoise == PyDict(<<KV(fF, PyStr(sCd)), KV(fG, PyStr(sZz)), KV(fM, PyStr(sErrUp))>>)
SeedOther == PyDict(<<KV(fF, PyStr(sZz)), KV(fG, PyStr(sZz))>>)
SeedBare  == PyDict(<<KV(fM, PyStr(sErrUp))>>)
SeedNum   == PyDict(<<KV(fM, PyInt(7))>>)
SeedFlag  == PyDict(<<KV(fM, PyBool(TRUE))>>)
\* a seed whose critical field holds a nested value (a list)
SeedList  == PyDict(<<KV(fF, PyList(<<PyStr(sABup), PyStr(sCd)>>)), KV(fG, PyStr(sZz))>>)

\* seed lists for the flat criteria: f and g are critical, m is not
FlatSeedLists ==
    { << >>, <<SeedMatch>>, <<SeedOther>>, <<SeedNoise>>, <<SeedList>>,
      <<SeedMatch, SeedOther>>, <<SeedOther, SeedMatch>> }

\* seed lists for criteria with no field at top level: m is not critical
BareSeedLists ==
    { << >>, <<SeedBare>>, <<SeedNum>>, <<SeedBare, SeedNum>>, <<SeedNum, SeedBare>> }

\* the (detection_criteria, positive_seeds, negative_seeds) the model expands
ExpanderInputs ==
    ({FlatCriteria} \X FlatSeedLists \X FlatSeedLists)
    \cup ({NestedCriteria, PyDict(<< >>)} \X BareSeedLists \X BareSeedLists)
    \cup ({NumberCriteria, OperatorCriteria} \X {<< >>, <<SeedNum>>} \X {<<SeedBare>>, <<SeedNum>>})
    \cup ({FlatCriteria} \X {<< >>, <<SeedMatch>>} \X {<<SeedNum>>})
    \cup {<<FlatCriteria, <<SeedNum>>, <<SeedFlag>>>>}
    \cup ({EmptyListCriteria} \X {<< >>, <<SeedMatch>>} \X {<< >>, <<SeedMatch>>})

\* the largest target_samples
MaxTarget == 4

\* the largest target_samples of a call whose seeds hold a non-critical str
\* field, which every mutation attempt may rewrite in several ways
MaxFreeTextTarget == 2

HasFreeText(seeds) == \E i \in 1..Len(seeds) : seeds[i] \in {SeedNoise, SeedBare}

\* expand_seeds(positive_seeds, negative_seeds, 10)   (test_expander.py:32)
ScenarioTarget == 10

\* the input expanded to ScenarioTarget too: one positive seed that matches
\* the flat criteria, one negative seed that holds its critical fields
ScenarioInput == <<FlatCriteria, <<SeedMatch>>, <<SeedOther>>>>

\* the targets the model expands an input to
TargetsOf(inp) ==
    IF HasFreeText(inp[2] \o inp[3]) THEN 0..MaxFreeTextTarget
    ELSE IF inp = ScenarioInput THEN 0..MaxTarget \cup {ScenarioTarget}
    ELSE 0..MaxTarget

\* ------------------------------------------------------------------------
\* process_rules_async (batch_processor.py:110-200).  Rule i is submitted to
\* a ThreadPoolExecutor of parallel_workers threads as future i; a worker runs
\* _process_single_rule on it, which catches every exception and returns a
\* BatchResult with success rule_ok[i].  The main thread submits, collects
\* with as_completed, cancels when failing fast, and leaves the with block,
\* which waits for the workers (shutdown(wait=True)).
\* ------------------------------------------------------------------------

\* the most rule files of a batch
MaxRules == 3

\* the most worker threads of the pool
MaxWorkers == 2

IdlePool ==
    [pc |-> "idle", fail_fast |-> FALSE, parallel_workers |-> 1, rule_ok |-> << >>,
     futures |-> << >>, started |-> {}, yielded |-> {}, results |-> << >>,
     k |-> 1, failing_fast |-> FALSE, successful |-> 0, failed |-> 0]

\* the batch before the first submit
NewPool(rule_ok, parallel_workers, fail_fast) ==
    [IdlePool EXCEPT !.pc = "submit", !.fail_fast = fail_fast,
                     !.parallel_workers = parallel_workers, !.rule_ok = rule_ok,
                     !.futures = [i \in 1..Len(rule_ok) |-> "new"]]

NumRules == Len(pool.rule_ok)

Running == {i \in 1..NumRules : pool.futures[i] = "running"}

\* future = executor.submit(self._process_single_rule, ...)
\* (batch_processor.py:144-151)
Submit ==
    /\ pool.pc = "submit"
    /\ pool.k <= NumRules
    /\ pool' = [pool EXCEPT !.futures[pool.k] = "pending", !.k = @ + 1]
    /\ UNCHANGED <<evalVars, expVars, cli>>

\* a free worker thread takes the oldest queued work item and starts it
WorkerStart(i) ==
    /\ pool.pc \in {"submit", "collect", "cancel"}
    /\ pool.futures[i] = "pending"
    /\ \A j \in 1..(i - 1) : pool.futures[j] # "pending"
    /\ Cardinality(Running) < pool.parallel_workers
    /\ pool' = [pool EXCEPT !.futures[i] = "running", !.started = @ \cup {i}]
    /\ UNCHANGED <<evalVars, expVars, cli>>

\* _process_single_rule returns its BatchResult (batch_processor.py:202-291)
WorkerFinish(i) ==
    /\ pool.pc \in {"submit", "collect", "cancel"}
    /\ pool.futures[i] = "running"
    /\ pool' = [pool EXCEPT !.futures[i] = "finished"]
    /\ UNCHANGED <<evalVars, expVars, cli>>

\* a cancel that leaves every future as it is
CancelNothing(state) == state

\* Future.cancel(): a future that has not started is cancelled, a running or
\* finished one stays as it is (batch_processor.py:167-169)
CancelFuture(state) == IF state = "pending" THEN "cancelled" ELSE state

\* one turn of the as_completed loop (batch_processor.py:154-171): the result
\* of a completed future is recorded, and a failed one starts failing fast
Collect(i) ==
    /\ pool.pc = "submit" => pool.k > NumRules
    /\ pool.pc \in {"submit", "collect"}
    /\ pool.futures[i] = "finished"
    /\ i \notin pool.yielded
    /\ pool' = [pool EXCEPT
                  !.results = Append(@, [rule |-> i, success |-> pool.rule_ok[i]]),
                  !.yielded = @ \cup {i},
                  !.pc = IF ~pool.rule_ok[i] /\ pool.fail_fast THEN "cancel" ELSE "collect",
                  !.k = 1,
                  !.failing_fast = ~pool.rule_ok[i] /\ pool.fail_fast]
    /\ UNCHANGED <<evalVars, expVars, cli>>

\* for remaining_future in future_to_rule: if not done: cancel()
\* (batch_processor.py:167-169), one future per step
Cancel ==
    /\ pool.pc = "cancel"
    /\ pool.k <= NumRules
    /\ pool' = [pool EXCEPT !.futures[pool.k] = CancelFuture(@), !.k = @ + 1]
    /\ UNCHANGED <<evalVars, expVars, cli>>

\* the loop is over (every future yielded, or the break after the cancels),
\* the with block has waited for the workers, and the summary is built
\* (batch_processor.py:171-200)
Return ==
    /\ \/ pool.pc \in {"submit", "collect"} /\ pool.k > NumRules
          /\ pool.yielded = 1..NumRules
       \/ pool.pc = "cancel" /\ pool.k > NumRules
    /\ \A i \in 1..NumRules : pool.futures[i] \in {"finished", "cancelled"}
    /\ pool' = [pool EXCEPT
                  !.pc = "returned",
                  !.successful = Len(SelectSeq(pool.results, LAMBDA r : r.success)),
                  !.failed = Len(SelectSeq(pool.results, LAMBDA r : ~r.success))]
    /\ UNCHANGED <<evalVars, expVars, cli>>

IdleEval ==
    /\ critA = PyDict(<< >>)
    /\ critB = PyDict(<< >>)
    /\ record = PyDict(<< >>)
    /\ validators = << >>
    /\ verdicts = << >>

IdleCommands ==
    /\ cli = IdleCli
    /\ pool = IdlePool

IdleExpander ==
    /\ detection_criteria = PyDict(<< >>)
    /\ positive_seeds = << >>
    /\ negative_seeds = << >>
    /\ target_samples = 0
    /\ random_seed = "None"
    /\ runs = [e \in RunIds |-> IdleRun]
    /\ tape = << >>
    /\ rpos = [p \in Procs |-> 0]

\* ------------------------------------------------------------------------
\* Specifications
\* ------------------------------------------------------------------------

\* one expander, constructed without a random seed, expands once
Init ==
    /\ IdleEval
    /\ IdleCommands
    /\ \E inp \in ExpanderInputs :
          /\ detection_criteria = inp[1]
          /\ positive_seeds = inp[2]
          /\ negative_seeds = inp[3]
          /\ target_samples \in TargetsOf(inp)
    /\ random_seed = "None"
    /\ runs = [e \in RunIds |-> IdleRun]
    /\ tape = << >>
    /\ rpos = [p \in Procs |-> 0]

Next == Step(1)

Spec == Init /\ [][Next]_vars

\* the generate command: one expander expands once, then the variants are
\* validated again
NextGenerate == Step(1) \/ Generate(1)

\* the inputs of Init with the small targets
InitGenerate ==
    /\ IdleEval
    /\ IdleCommands
    /\ \E inp \in ExpanderInputs :
          /\ detection_criteria = inp[1]
          /\ positive_seeds = inp[2]
          /\ negative_seeds = inp[3]
          /\ target_samples \in TargetsOf(inp) \cap (0..MaxTarget)
    /\ random_seed = "None"
    /\ runs = [e \in RunIds |-> IdleRun]
    /\ tape = << >>
    /\ rpos = [p \in Procs |-> 0]

SpecGenerate == InitGenerate /\ [][NextGenerate]_vars

\* the largest target_samples of the calls checked for termination, on the
\* seeds without a non-critical str field
MaxLiveTarget == 3

InitTerminates ==
    /\ IdleEval
    /\ IdleCommands
    /\ \E inp \in {x \in ExpanderInputs : ~HasFreeText(x[2] \o x[3])} :
          /\ detection_criteria = inp[1]
          /\ positive_seeds = inp[2]
          /\ negative_seeds = inp[3]
          /\ target_samples \in 0..MaxLiveTarget
    /\ random_seed = "None"
    /\ runs = [e \in RunIds |-> IdleRun]
    /\ tape = << >>
    /\ rpos = [p \in Procs |-> 0]

\* one expander expands once and is never suspended for ever: expand_seeds
\* runs in the thread that called it, which keeps taking steps
SpecTerminates == InitTerminates /\ [][Next]_vars /\ WF_vars(Next)

\* the inputs of the seeded specifications, each with its targets: every draw
\* is recorded there, so the seed with a non-critical field is expanded once
SeededInputs(maxTarget) ==
    ({<<FlatCriteria, <<SeedMatch>>, <<SeedOther>>>>,
      <<FlatCriteria, <<SeedMatch, SeedOther>>, << >>>>,
      <<FlatCriteria, <<SeedMatch, SeedOther>>, <<SeedOther>>>>} \X (0..maxTarget))
    \cup ({<<FlatCriteria, <<SeedNoise>>, << >>>>} \X {1})
    \cup ({<<PyNone, <<SeedNum>>, <<SeedFlag>>>>} \X (0..maxTarget))

\* the largest target_samples of the two runs compared for reproducibility
MaxReproTarget == 3

\* the largest target_samples of a rule of the batch
MaxBatchTarget == 2

InitSeeded(seeds, maxTarget) ==
    /\ IdleEval
    /\ IdleCommands
    /\ \E inp \in SeededInputs(maxTarget) :
          /\ detection_criteria = inp[1][1]
          /\ positive_seeds = inp[1][2]
          /\ negative_seeds = inp[1][3]
          /\ target_samples = inp[2]
    /\ random_seed \in seeds
    /\ runs = [e \in RunIds |-> IdleRun]
    /\ tape = << >>
    /\ rpos = [p \in Procs |-> 0]

\* two runs, one after the other in one process, on the same inputs
InitRepro == InitSeeded({"None", "42"}, MaxReproTarget)

NextRepro == Step(1) \/ (Finished(1) /\ Step(2))

SpecRepro == InitRepro /\ [][NextRepro]_vars

\* the batch pool: rules 1 and 2 are expanded by two worker threads of one
\* process (batch_processor.py:138-151), each with its own LocalExpander and
\* RuleValidator built with config.random_seed (batch_processor.py:229-233);
\* run 3 expands rule 1 alone, in a process of its own
InitBatch == InitSeeded({"42"}, MaxBatchTarget)

NextBatch == Step(3) \/ (Finished(3) /\ (Step(1) \/ Step(2)))

SpecBatch == InitBatch /\ [][NextBatch]_vars

\* the evaluator under its driver
InitEval ==
    /\ critA \in {CriteriaPool[i] : i \in 1..Len(CriteriaPool)}
    /\ critB \in {SecondPool[i] : i \in 1..Len(SecondPool)}
    /\ record \in {RecordPool[i] : i \in 1..Len(RecordPool)}
    /\ validators = << >>
    /\ verdicts = << >>
    /\ IdleExpander
    /\ IdleCommands

NextEval ==
    \/ NewValidator
    \/ \E i \in 1..Len(verdicts) : ValidateEntry(i)

SpecEval == InitEval /\ [][NextEval]_vars

\* ------------------------------------------------------------------------
\* Claims about expand_seeds (specification Spec)
\* ------------------------------------------------------------------------

\* the label a verdict of validate_entry stands for
LabelOf(b) == IF b THEN "True" ELSE "False"

\* variants appended before the shuffle, by the per-seed loops
PerSeedCount(r) == Len(r.positive_variants) + Len(r.negative_variants)

\* C1: round trip.  Every (record, label) pair of the list expand_seeds
\* returns satisfies validate_entry(record) = label under the expander's
\* criteria, whatever the seeds' real match status and the random choices,
\* in the per-seed phase and in the top-up phase.
C1_RoundTrip ==
    runs[1].pc = "done" =>
        \A i \in 1..Len(runs[1].result) :
            validate_entry(RuleValidator(detection_criteria), runs[1].result[i].rec)
                = LabelOf(runs[1].result[i].label)

\* a returned list with both labels, part of it appended by the top-up loop,
\* from seed lists where a positive seed does not match the criteria
C1_Witness ==
    /\ runs[1].pc = "done"
    /\ PerSeedCount(runs[1]) >= 1
    /\ Len(runs[1].result) > PerSeedCount(runs[1])
    /\ \E i \in 1..Len(runs[1].result) : runs[1].result[i].label
    /\ \E i \in 1..Len(runs[1].result) : ~runs[1].result[i].label
    /\ \E i \in 1..Len(positive_seeds) :
          validate_entry(RuleValidator(detection_criteria), positive_seeds[i]) = "False"

\* C2: expand_seeds returns at most target_samples variants.  The per-seed
\* loops never append more than target_samples (the quotas are floors of
\* shares of it), so the slice of the return statement is never what keeps
\* the bound.
C2_AtMostTarget ==
    /\ runs[1].pc = "done" => Len(runs[1].result) <= target_samples
    /\ PerSeedCount(runs[1]) <= target_samples

\* a call returned exactly target_samples >= 2 variants after a top-up
C2_Witness ==
    /\ runs[1].pc = "done"
    /\ target_samples >= 2
    /\ Len(runs[1].result) = target_samples
    /\ PerSeedCount(runs[1]) < target_samples

\* C14: with both seed lists empty, expand_seeds returns the empty list for
\* every target_samples, attempts no mutation and does not raise: the call
\* goes from its start straight to the return of [].
C14_EmptyPools ==
    (Len(positive_seeds) + Len(negative_seeds) = 0) =>
        /\ runs[1].pc \in {"idle", "ready", "done"}
        /\ runs[1].result = << >>
        /\ runs[1].variants = << >> /\ PerSeedCount(runs[1]) = 0

\* a call with no seeds and a positive target has returned
C14_Witness ==
    /\ Len(positive_seeds) + Len(negative_seeds) = 0
    /\ target_samples >= 1
    /\ runs[1].pc = "done"

\* every variant run e holds is a record of its own
AllFresh(e) ==
    /\ \A i \in 1..Len(runs[e].positive_variants) : runs[e].positive_variants[i].fresh
    /\ \A i \in 1..Len(runs[e].negative_variants) : runs[e].negative_variants[i].fresh
    /\ \A i \in 1..Len(runs[e].variants) : runs[e].variants[i].fresh
    /\ \A i \in 1..Len(runs[e].result) : runs[e].result[i].fresh

\* C15: expand_seeds leaves every seed record as it was (no step of the
\* call, accepted, rejected or top-up attempt, changes positive_seeds or
\* negative_seeds, nested values included), and no variant shares an object
\* with a seed.
C15_SeedsReadOnly ==
    /\ [](AllFresh(1))
    /\ [][positive_seeds' = positive_seeds /\ negative_seeds' = negative_seeds]_vars

\* a top-up attempt was rejected after variants had been accepted, in a call
\* whose seeds hold a nested value
C15_Witness ==
    /\ \E i \in 1..Len(negative_seeds) : negative_seeds[i] = SeedList
    /\ runs[1].pc = "topup_try"
    /\ runs[1].attempt >= 1
    /\ Len(runs[1].variants) >= 1

\* the variants the call of run e returned
Returned(e) == {runs[e].result[i] : i \in 1..Len(runs[e].result)}

\* the seeds of the call
AllSeeds == {positive_seeds[i] : i \in 1..Len(positive_seeds)}
            \cup {negative_seeds[i] : i \in 1..Len(negative_seeds)}

\* field f of the record is what it is in the seed
SameField(rec, seed, f) == HasKey(rec, f) /\ Get(rec, f) = Get(seed, f)

\* f is a top-level key of the criteria
IsCritical(f) ==
    \E j \in 1..Len(detection_criteria.items) : detection_criteria.items[j].k = f

\* C16: in every variant returned with label true, each critical field (a
\* top-level key of the criteria) the seed contains has exactly the seed's
\* value; and _transform_non_critical_fields changes only string-valued
\* top-level fields that are not critical.
C16_CriticalFieldsKept ==
    /\ \A v \in Returned(1) :
          v.label => \A i \in 1..Len(v.seed.items) :
                        IsCritical(v.seed.items[i].k)
                            => SameField(v.rec, v.seed, v.seed.items[i].k)
    /\ \A seed \in AllSeeds :
          \A r \in _transform_non_critical_fields(seed, 1, Keys(detection_criteria)) :
             \A i \in 1..Len(seed.items) :
                (IsCritical(seed.items[i].k) \/ seed.items[i].v.t # "str")
                    => SameField(r.rec, seed, seed.items[i].k)

\* a returned variant with label true whose non-critical field was rewritten
\* and whose seed holds critical fields
C16_Witness ==
    \E v \in Returned(1) :
        /\ v.label
        /\ v.rec # v.seed
        /\ \E i \in 1..Len(v.seed.items) : IsCritical(v.seed.items[i].k)

\* C17: whenever _break_critical_field replaces the value of the critical
\* field it chose, the replacement does not satisfy that field's condition,
\* whatever the condition's shape; so criteria that are one field group
\* evaluate to false on the broken record.  Stated where _expand_seed is
\* about to break a negative seed that holds a critical field.
C17_BreakDefeats ==
    (runs[1].pc = "negative" /\ IsFieldGroup(detection_criteria)) =>
        LET seed == negative_seeds[runs[1].si]
        IN  \A b \in _break_critical_field(seed, runs[1].criteria, runs[1].critical_fields) :
                (~b.raised /\ \E i \in 1..Len(seed.items) : IsCritical(seed.items[i].k))
                    => validate_entry(runs[1].criteria, b.rec) = "False"

\* flat criteria made of allowed-string-list and scalar-string conditions
IsFlatStringCriteria(c) ==
    /\ IsFieldGroup(c) /\ Len(c.items) >= 1
    /\ \A i \in 1..Len(c.items) :
          \/ c.items[i].v.t = "str"
          \/ /\ c.items[i].v.t = "list"
             /\ \A j \in 1..Len(c.items[i].v.items) : c.items[i].v.items[j].t = "str"

\* how many returned variants of run e carry the label
CountLabel(e, label) == Cardinality({i \in 1..Len(runs[e].result) : runs[e].result[i].label = label})

\* C18: with flat criteria of allowed-string-list and scalar-string
\* conditions, one positive seed that satisfies them and one negative seed
\* that contains the critical fields, expand_seeds returns exactly N variants,
\* floor(N/2) labelled true and N - floor(N/2) labelled false, whatever the
\* random choices.
C18_OnePositiveOneNegative ==
    ( /\ Finished(1)
      /\ IsFlatStringCriteria(detection_criteria)
      /\ Len(positive_seeds) = 1 /\ Len(negative_seeds) = 1
      /\ validate_entry(RuleValidator(detection_criteria), positive_seeds[1]) = "True"
      /\ \A i \in 1..Len(detection_criteria.items) :
            HasKey(negative_seeds[1], detection_criteria.items[i].k) )
    => /\ runs[1].pc = "done"
       /\ Len(runs[1].result) = target_samples
       /\ CountLabel(1, TRUE) = target_samples \div 2
       /\ CountLabel(1, FALSE) = target_samples - (target_samples \div 2)

\* the scenario call with target 10 returned, both labels present
C18_Witness ==
    /\ runs[1].pc = "done"
    /\ <<detection_criteria, positive_seeds, negative_seeds>> = ScenarioInput
    /\ target_samples = ScenarioTarget
    /\ CountLabel(1, TRUE) >= 1 /\ CountLabel(1, FALSE) >= 1

\* every variant run e holds: appended by _expand_seed, kept by expand_seeds
Emitted(e) ==
    {runs[e].positive_variants[i] : i \in 1..Len(runs[e].positive_variants)}
    \cup {runs[e].negative_variants[i] : i \in 1..Len(runs[e].negative_variants)}
    \cup {runs[e].variants[i] : i \in 1..Len(runs[e].variants)}
    \cup Returned(e)

\* the top-level field names of a record
FieldNames(rec) == {rec.items[i].k : i \in 1..Len(rec.items)}

\* C20: every variant emitted by _expand_seed or expand_seeds has exactly the
\* top-level field names of the seed it was derived from: no mutation adds or
\* removes a field.
C20_SameFieldNames ==
    \A v \in Emitted(1) :
        /\ FieldNames(v.rec) = FieldNames(v.seed)
        /\ Len(v.rec.items) = Len(v.seed.items)

\* the call returned a negative variant of a seed without any critical field
\* and a negative variant whose critical field was broken
C20_Witness ==
    /\ \E v \in Returned(1) :
          ~v.label /\ \A i \in 1..Len(v.seed.items) : ~IsCritical(v.seed.items[i].k)
    /\ \E v \in Returned(1) : ~v.label /\ v.rec # v.seed

\* C29: expand_seeds terminates on every input, even when every mutation
\* attempt fails validation: the top-up phase makes at most target_samples
\* minus the variants accepted in the per-seed phase single-slot calls, each
\* bounded by 5 attempts, and then returns what was accepted.
C29_Terminates ==
    /\ <>Finished(1)
    /\ [](runs[1].pc \in {"topup", "topup_try"} =>
            /\ runs[1].left >= 1
            /\ runs[1].left <= target_samples - PerSeedCount(runs[1])
            /\ runs[1].attempt < attempts_per_variant)
    /\ [](runs[1].pc = "done" =>
            /\ runs[1].result = Truncated(runs[1].variants, target_samples)
            /\ Len(runs[1].result) >= PerSeedCount(runs[1]))

\* every attempt of the call failed, in the per-seed loops and in each of the
\* two or more top-up calls, and the call returned the empty list
C29_Witness ==
    /\ runs[1].pc = "done"
    /\ target_samples >= 2
    /\ Len(positive_seeds) + Len(negative_seeds) > 0
    /\ runs[1].result = << >>

\* C26: in the top-up phase the label used to regenerate a variant from the
\* picked seed is that seed's known label: true iff the seed was supplied in
\* positive_seeds, false iff it was supplied in negative_seeds, also when a
\* negative seed's record equals a positive seed's record.
C26_TopUpLabel ==
    runs[1].pc = "topup_try" =>
        (runs[1].should_trigger <=> runs[1].si <= Len(positive_seeds))

\* the variants run e holds in its lists
HeldCount(r) == Len(r.positive_variants) + Len(r.negative_variants) + Len(r.variants)

\* the list the attempt loop of run r appends to
SlotList(r) ==
    CASE r.pc = "positive" -> r.positive_variants
      [] r.pc = "negative" -> r.negative_variants
      [] OTHER             -> r.variants

\* one step of the attempt loop, from r to r2: a failed attempt that is not
\* the last leaves the slot where it is, an accepted attempt ends the slot
\* with exactly its record appended, and the last failed attempt ends the slot
\* with nothing appended
SlotStep(r, r2) ==
    LET same == r2.pc = r.pc /\ r2.si = r.si /\ r2.slot = r.slot /\ r2.left = r.left
    IN  \/ r2.pc = "raised"
        \/ /\ same /\ r2.attempt = r.attempt + 1
           /\ HeldCount(r2) = HeldCount(r)
        \/ /\ ~same /\ HeldCount(r2) = HeldCount(r) + 1
           /\ LET list == IF r.pc = "positive" THEN r2.positive_variants
                          ELSE IF r.pc = "negative" THEN r2.negative_variants
                          ELSE r2.variants
                  v == list[Len(list)]
              IN  /\ list = Append(SlotList(r), v)
                  /\ v.fresh /\ v.seed \in AllSeeds
                  /\ validate_entry(r.criteria, v.rec) = (IF v.label THEN "True" ELSE "False")
        \/ /\ ~same /\ HeldCount(r2) = HeldCount(r)
           /\ r.attempt = attempts_per_variant - 1

\* C25: for each variant slot _expand_seed makes at most 5 attempts, each on
\* a fresh copy of the original seed; it stops at the first attempt whose
\* evaluation equals the label and emits exactly that record, and after 5
\* failed attempts the slot emits nothing and the next slot starts.  So
\* _expand_seed(seed, q, label) returns at most q variants after at most 5 * q
\* evaluations.
C25_RetryBound ==
    /\ [](/\ runs[1].attempt < attempts_per_variant
          /\ runs[1].pc = "positive" =>
                Len(runs[1].positive_variants)
                    <= (runs[1].si - 1) * PosQuota(runs[1]) + runs[1].slot - 1
          /\ runs[1].pc = "negative" =>
                Len(runs[1].negative_variants)
                    <= (runs[1].si - 1) * NegQuota(runs[1]) + runs[1].slot - 1)
    /\ [][runs[1].pc \in {"positive", "negative", "topup_try"}
            => SlotStep(runs[1], runs'[1])]_runs

\* every slot of the positive seed used up its attempts and emitted nothing,
\* and the call went on to emit negative variants
C25_Witness ==
    /\ runs[1].pc = "done"
    /\ Len(positive_seeds) > 0 /\ PosQuota(runs[1]) > 0
    /\ runs[1].positive_variants = << >>
    /\ Len(runs[1].negative_variants) >= 1

\* the records the validator of run e was or will be asked about: the seeds
\* and everything the run emitted
NeverTriggers(e) ==
    /\ \A s \in AllSeeds : validate_entry(runs[e].criteria, s) = "False"
    /\ \A v \in Emitted(e) : validate_entry(runs[e].criteria, v.rec) = "False"

\* C21: when the validator returns false for every entry, so that it
\* disagrees with the label of the positive seeds, generate reports validation
\* errors and exits with status 1 (stated for calls that return a variant);
\* and generate exits 1 with that report whenever the second validation of a
\* returned variant differs from its label.
C21_GenerateExitsOne ==
    /\ ( /\ cli.pc = "exited" /\ runs[1].pc = "done"
         /\ Len(positive_seeds) > 0 /\ Len(runs[1].result) > 0
         /\ NeverTriggers(1) )
       => (cli.exit_code = 1 /\ cli.report = "Validation errors")
    /\ ( /\ cli.pc = "exited" /\ runs[1].pc = "done"
         /\ \E v \in Returned(1) :
                (validate_entry(RuleValidator(runs[1].criteria), v.rec) = "True") # v.label )
       => (cli.exit_code = 1 /\ cli.report = "Validation errors")

\* every mutation attempt on the seed is accepted for the label
AlwaysProduces(seed, should_trigger) ==
    \A a \in AttemptRuns(seed, should_trigger, RuleValidator(detection_criteria),
                         Keys(detection_criteria)) : ~a.raised /\ a.ok

\* C3: expand_seeds returns exactly target_samples variants, for every outcome
\* of the random choices, whenever at least one seed of each label that has
\* seeds can produce a valid mutation within the retry budget.  Stated here
\* for seeds whose every attempt is valid, the most that "can produce" asks.
C3_ExactTarget ==
    ( /\ runs[1].pc = "done"
      /\ Len(positive_seeds) + Len(negative_seeds) > 0
      /\ (Len(positive_seeds) > 0 =>
             \E i \in 1..Len(positive_seeds) : AlwaysProduces(positive_seeds[i], TRUE))
      /\ (Len(negative_seeds) > 0 =>
             \E i \in 1..Len(negative_seeds) : AlwaysProduces(negative_seeds[i], FALSE)) )
    => Len(runs[1].result) = target_samples

\* ------------------------------------------------------------------------
\* The ratio split alone: expand_seeds up to its targets, on many seeds
\* ------------------------------------------------------------------------

\* the largest target_samples of the ratio split
MaxSplitTarget == 55

\* the most seeds of one label in the ratio split
MaxSplitSeeds == 6

InitSplit ==
    /\ IdleEval
    /\ IdleCommands
    /\ detection_criteria = FlatCriteria
    /\ \E p \in 0..MaxSplitSeeds, n \in 0..MaxSplitSeeds :
          /\ positive_seeds = [i \in 1..p |-> SeedMatch]
          /\ negative_seeds = [i \in 1..n |-> SeedNum]
    /\ target_samples \in 0..MaxSplitTarget
    /\ random_seed = "None"
    /\ runs = [e \in RunIds |-> IdleRun]
    /\ tape = << >>
    /\ rpos = [p \in Procs |-> 0]

NextSplit == Construct(1) \/ Begin(1)

SpecSplit == InitSplit /\ [][NextSplit]_vars

\* C24: for every target N >= 0 and seed counts p, n with p + n > 0,
\* expand_seeds uses target_positive = floor(N * p / (p + n)), computed
\* exactly, and target_negative = N - target_positive: both are non-negative
\* and they sum to N.
C24_RatioSplit ==
    (runs[1].pc \notin {"idle", "ready"} /\ Len(positive_seeds) + Len(negative_seeds) > 0)
        => /\ runs[1].target_positive =
                 (target_samples * Len(positive_seeds))
                     \div (Len(positive_seeds) + Len(negative_seeds))
           /\ runs[1].target_negative = target_samples - runs[1].target_positive
           /\ runs[1].target_positive >= 0 /\ runs[1].target_negative >= 0
           /\ runs[1].target_positive + runs[1].target_negative = target_samples

\* ------------------------------------------------------------------------
\* The batch pool alone
\* ------------------------------------------------------------------------

InitPool ==
    /\ IdleEval
    /\ IdleExpander
    /\ cli = IdleCli
    /\ \E n \in 0..MaxRules, w \in 1..MaxWorkers, ff \in BOOLEAN :
          \E ok \in [1..n -> BOOLEAN] : pool = NewPool(ok, w, ff)

NextPool ==
    \/ Submit
    \/ \E i \in 1..NumRules : WorkerStart(i)
    \/ \E i \in 1..NumRules : WorkerFinish(i)
    \/ \E i \in 1..NumRules : Collect(i)
    \/ Cancel
    \/ Return

SpecPool == InitPool /\ [][NextPool]_vars

CumulativeValue(value, tr) ==
    LET cased   == Below(tr[1], 20)
        v1      == IF ~cased THEN value
                   ELSE IF Below(tr[2], 50) THEN Lower(value) ELSE Upper(value)
        i       == IF cased THEN 3 ELSE 2
        noised  == Below(tr[i], 10)
        v2      == IF noised THEN v1 \o sUnderscore \o Noise(tr[i + 1]) ELSE v1
        j       == IF noised THEN i + 2 ELSE i + 1
    IN  IF ~Below(tr[j], 15) THEN v2
        ELSE IF Contains(Lower(value), sError) THEN sErrorPfx \o v2
        ELSE IF Contains(Lower(value), sFailed) THEN sFailedPfx \o v2
        ELSE v2

\* C27: the three transformations of a non-critical string field (case flip,
\* 5-character suffix, ERROR_/FAILED_ prefix) are decided independently and
\* are cumulative: when more than one fires in one call, the final value is
\* the later one applied to the result of the earlier ones.  Stated where
\* _expand_seed is about to transform a copy of a positive seed.
C27_Cumulative ==
    (Seeded /\ runs[1].pc = "positive") =>
        LET seed == positive_seeds[runs[1].si]
        IN  \A i \in 1..Len(seed.items) :
               (seed.items[i].v.t = "str" /\ ~IsCritical(seed.items[i].k)) =>
                   \A r \in TransformValueRuns(seed.items[i].v.s) :
                       r.v = CumulativeValue(seed.items[i].v.s, r.tr)

\* what a run hands back: the returned list, or the exception
\* what a run hands back: the returned list, or the exception
Outcome(e) == <<runs[e].pc, runs[e].result>>

\* C19: a LocalExpander constructed with a random seed and no detection
\* criteria, given one positive seed, one negative seed and target N, returns
\* exactly N variants.
C19_NoCriteriaExact ==
    ( /\ Seeded /\ Finished(1)
      /\ detection_criteria = PyNone
      /\ Len(positive_seeds) = 1 /\ Len(negative_seeds) = 1 )
    => (runs[1].pc = "done" /\ Len(runs[1].result) = target_samples)

\* C4: determinism.  Two runs that each construct a LocalExpander with the
\* same random_seed (an int) and criteria and call expand_seeds with the same
\* seed lists and target return identical variant sequences.
C4_Deterministic ==
    (Seeded /\ Finished(1) /\ Finished(2)) => Outcome(1) = Outcome(2)

\* two seeded runs both returned two or more variants after several draws
C4_Witness ==
    /\ Seeded /\ runs[1].pc = "done" /\ runs[2].pc = "done"
    /\ Len(runs[2].result) >= 2
    /\ Len(tape) >= 3

\* C5: no state is shared between the expansions of different rules.  A rule
\* expanded by a worker thread of the pool, beside another rule's expansion,
\* gets the variant sequence it gets when expanded alone with the same seed.
C5_Isolated ==
    (Finished(1) /\ Finished(3)) => Outcome(1) = Outcome(3)

\* the run is past the computation of the targets (expander.py:70-72)
HasTargets(r) == r.pc \in {"positive", "negative", "shuffle", "topup", "topup_try"}

\* C30: for target_samples N >= 0 the per-seed phase accepts at most
\* target_positive true-labelled and at most target_negative false-labelled
\* variants, each seed's quota being the integer quotient of its label's
\* target by the number of seeds of that label; so the list before sizing has
\* at most N entries, and the sizing step never takes its truncation branch:
\* it leaves every accepted variant in the list.
C30_NoTruncation ==
    /\ [](HasTargets(runs[1]) =>
            /\ runs[1].target_positive >= 0
            /\ runs[1].target_negative >= 0
            /\ runs[1].target_positive + runs[1].target_negative = target_samples
            /\ Len(runs[1].positive_variants) <= runs[1].target_positive
            /\ Len(runs[1].negative_variants) <= runs[1].target_negative
            /\ \A i \in 1..Len(runs[1].positive_variants) :
                  runs[1].positive_variants[i].label = TRUE
            /\ \A i \in 1..Len(runs[1].negative_variants) :
                  runs[1].negative_variants[i].label = FALSE)
    /\ [][runs[1].pc = "shuffle" =>
            /\ Len(runs[1].positive_variants \o runs[1].negative_variants) <= target_samples
            /\ Len(runs'[1].variants) = PerSeedCount(runs[1])]_runs

\* the sizing step is reached with the per-seed lists full: two positive
\* seeds shared target_positive >= 2 between them, every slot of both labels
\* was accepted, and the list before sizing has exactly target_samples
\* entries
C30_Witness ==
    /\ runs[1].pc = "shuffle"
    /\ Len(positive_seeds) = 2
    /\ runs[1].target_positive >= 2
    /\ Len(runs[1].positive_variants) = runs[1].target_positive
    /\ Len(runs[1].negative_variants) = runs[1].target_negative

====
